---- MODULE Spec2Model ----
(***************************************************************************)
(* Model of the cashflow tracker.  The repository holds two variants of    *)
(* the same application:                                                   *)
(*   - src/app.py: raw SQL on the table `transactions`, one ledger per     *)
(*     logged-in user, totals computed by get_user_totals;                 *)
(*   - src/routes/cashflow.py + src/models.py: the ORM table `Cashflow`,   *)
(*     one ledger, per-row running balances written by recalc_saldo.       *)
(* One behaviour of the model is one deployment: `variant` is chosen at    *)
(* start-up and only that variant's request handlers run.                  *)
(*                                                                         *)
(* Spec takes one step per statement that reads or commits: a request of   *)
(* app.py is one step; a writing request of the ORM variant reads its row  *)
(* (a POST / reads the clock), commits its change, reads the table in      *)
(* recalc_saldo() and commits the balances, and other requests take their  *)
(* steps in between.  The ORM server starts on an empty database file or   *)
(* on one that holds a record of an earlier run.                           *)
(* SpecApp and SpecOrm are Spec of one variant alone.                      *)
(* SpecConcurrent runs one get_user_totals of app.py query by query while  *)
(* other requests of app.py commit.                                        *)
(*                                                                         *)
(* SpecTotals runs get_user_totals of app.py on the ledgers a user's adds  *)
(* build up.                                                               *)
(*                                                                         *)
(* Amounts are REAL/Float columns in the code: IEEE 754 doubles.  A double *)
(* is modelled by its exact value, and a sum or difference is rounded to   *)
(* 53 significant bits, ties to even, as the processor rounds it.          *)
(***************************************************************************)
EXTENDS Integers, FiniteSets, Sequences, TLC

VARIABLES
    variant,       \* "app" (src/app.py) or "orm" (src/routes/cashflow.py)
    transactions,  \* rows of the SQL table transactions (app.py)
    seq,           \* sqlite_sequence of transactions (AUTOINCREMENT)
    db_locked,     \* a connection a failed handler of app.py left behind
                   \* still holds the write lock of the database file
    cashflow,      \* rows of the ORM table Cashflow (models.py)
    pending,       \* the ORM requests in flight: for each its route, the
                   \* id in its URL, its position in the handler and what
                   \* its session is about to write (a bag)
    started,       \* how many ORM requests got past their first statement
    now,           \* latest clock reading used as a column default
    request,       \* the request answered last: its route and, for an
                   \* update of app.py, the id in its URL
    response,      \* what its handler answered
    totals_call    \* a get_user_totals running step by step beside the
                   \* other requests: its position and its locals

vars == <<variant, transactions, seq, db_locked, cashflow, pending, started, now,
          request, response, totals_call>>

(***************************************************************************)
(* Bounds                                                                  *)
(***************************************************************************)
\* Largest row id handed out (caps the number of inserts).
MaxId == 2
\* Largest clock reading.
MaxClock == 1
\* ORM requests that may be in flight at one time: read their row and not
\* yet committed, or committed and not yet through recalc_saldo().
MaxPending == 2
\* Rows of the ledgers get_user_totals is run on in SpecTotals.
MaxRows == 3
\* ORM requests that get past their first statement in one behaviour
\* (requests answered with an error at their first statement are not
\* counted).
MaxRequests == 2

(***************************************************************************)
(* Request inputs                                                          *)
(***************************************************************************)
\* request.form.get(k) / a missing key / SQL NULL
None == "None"

\* The request answered last: its route and, for POST /edit_transaction/<id>,
\* the id in its URL; 0 on every other route.  (The id of an ORM request is
\* in its entry of `pending` while the request is in flight.)
Req(route, id) == [route |-> route, id |-> id]

\* Logged-in users of app.py (current_user.id).
Users == {1, 2}

\* A double is written as its exact value in units of 2^-56, in base 2^20:
\* <<a, b, c>> is (a * 2^40 + b * 2^20 + c) * 2^-56 with 0 <= b, c < 2^20,
\* and a carries the sign.  Every double from 2^-4 up is a multiple of the
\* unit, and so is every sum and difference of such doubles.
Limb == 2 ^ 20

\* Strings a client sends as the amount field, and what float() makes of
\* them, the nearest double: 0.1 is 0x1.999999999999ap-4, 0.2 is
\* 0x1.999999999999ap-3 and 0.3 is 0x1.3333333333333p-2.  float() raises
\* ValueError on any other string.
FloatTable ==
    ("2" :> <<131072, 0, 0>>) @@ ("1" :> <<65536, 0, 0>>)
      @@ ("1.0" :> <<65536, 0, 0>>) @@ ("0" :> <<0, 0, 0>>)
      @@ ("-1" :> <<0 - 65536, 0, 0>>)
      @@ ("0.1" :> <<6553, 629145, 629146>>)
      @@ ("0.2" :> <<13107, 209715, 209716>>)
      @@ ("0.3" :> <<19660, 838860, 838860>>)

\* A submitted form.  The server receives whatever the client sends: the
\* forms below are well-formed ones and ones with a field off.
Form(d, c, t, a) == [description |-> d, category |-> c, transaction |-> t, amount |-> a]

ValidForms ==
    { Form("gaji", "cash", "income", "0.1"),
      Form("kopi", "cash", "expenditure", "1"),
      Form("gaji", "non_cash", "income", "1.0") }

InvalidForms ==
    { Form("kopi", "bank", "income", "1"),            \* unrecognized category
      Form("kopi", "cash", "transfer", "1"),          \* unrecognized type
      Form("kopi", "non_cash", "expenditure", "-1"),  \* negative amount
      Form("kopi", "cash", "income", "abc"),          \* non-numeric amount
      Form("kopi", "cash", "income", None),           \* amount field missing
      Form(None, "cash", "income", "1") }             \* description missing

Forms == ValidForms \cup InvalidForms

\* Forms a user adds.  The second user's rows matter as rows that are not
\* the first user's, so it sends a single form.
AddForms(user) ==
    IF user = 1 THEN Forms ELSE { Form("gaji", "cash", "income", "2") }

\* Forms of the adds that build the ledgers get_user_totals is run on by
\* itself: fractional amounts in three of the four buckets.
LedgerForms ==
    { Form("gaji", "cash", "income", "0.1"),
      Form("kopi", "cash", "expenditure", "0.2"),
      Form("gaji", "non_cash", "income", "0.3") }

\* Forms of the requests that commit beside a running get_user_totals: what
\* an add sends and what an edit sends.
ConcurrentAddForms == { Form("gaji", "cash", "income", "2") }
ConcurrentEditForms == { Form("kopi", "non_cash", "expenditure", "1") }

\* Forms POST / receives: a valid one, one with an unrecognized category,
\* one with a negative amount, one float() rejects and one without a
\* description.
CashflowForms ==
    { Form("gaji", "cash", "income", "2"),
      Form("kopi", "bank", "income", "1"),
      Form("kopi", "non_cash", "expenditure", "-1"),
      Form("kopi", "cash", "income", "abc"),
      Form(None, "cash", "income", "1") }

\* Forms an edit submits: a valid one, one with an unrecognized category,
\* one float() rejects and one without a description.
EditForms ==
    { Form("kopi", "cash", "expenditure", "1"),
      Form("kopi", "bank", "income", "1"),
      Form("kopi", "cash", "income", "abc"),
      Form(None, "cash", "income", "1") }

\* Query parameters of GET /transactions.  request.args.get gives 'all' for
\* an absent category or type and '' for an absent search.
FilterCategories == {"all", "cash", "non_cash"}
FilterTypes == {"all", "income"}
Searches == {"", "op", "OP", "x", "_"}

\* The characters of the descriptions and search strings in use.
Chars ==
    ("gaji" :> <<"g", "a", "j", "i">>) @@ ("kopi" :> <<"k", "o", "p", "i">>)
      @@ ("" :> <<>>) @@ ("op" :> <<"o", "p">>) @@ ("OP" :> <<"O", "P">>)
      @@ ("x" :> <<"x">>) @@ ("_" :> <<"_">>)

(***************************************************************************)
(* Python and SQL primitives the handlers use                              *)
(***************************************************************************)
\* float(x) raises ValueError unless x is a numeric string.
FloatRaises(x) == x \notin DOMAIN FloatTable

\* float(x) for a numeric string x.
Float(x) == FloatTable[x]

\* The double 0.0, which the integer 0 of Python and of SQL equals.
FloatZero == <<0, 0, 0>>

\* float(n) of a small integer n, as a division converts its operands.
FloatOfInt(n) == <<n * 2 ^ 16, 0, 0>>

\* The digits of a value carried into range.
FloatNorm(a, b, c) ==
    LET c1 == c % Limb
        b0 == b + (c - c1) \div Limb
        b1 == b0 % Limb
    IN <<a + (b0 - b1) \div Limb, b1, c1>>

\* -x
FloatNeg(x) == FloatNorm(0 - x[1], 0 - x[2], 0 - x[3])

\* The number of bits of a natural number.
RECURSIVE BitLen(_)
BitLen(n) == IF n = 0 THEN 0 ELSE 1 + BitLen(n \div 2)

\* A value x >= 0 rounded to 53 significant bits, ties to even.  Below 2^53
\* units (a < 2^13) every value is a double; from there on the lowest
\* BitLen(a) - 13 bits are rounded away.
FloatRoundMagnitude(x) ==
    IF x[1] < 2 ^ 13 \/ x[3] = 0 THEN x
    ELSE LET p == 2 ^ (BitLen(x[1]) - 13)
             rem == x[3] % p
             down == x[3] - rem
             up == 2 * rem > p \/ (2 * rem = p /\ (down \div p) % 2 = 1)
         IN IF up THEN FloatNorm(x[1], x[2], down + p) ELSE <<x[1], x[2], down>>

\* The exact value x as the double an operation delivers.
FloatRound(x) ==
    IF x[1] < 0 THEN FloatNeg(FloatRoundMagnitude(FloatNeg(x)))
    ELSE FloatRoundMagnitude(x)

\* x + y: the exact sum, rounded.  (x + 0 is x.)
FloatAdd(x, y) ==
    IF y = FloatZero THEN x
    ELSE IF x = FloatZero THEN y
    ELSE FloatRound(FloatNorm(x[1] + y[1], x[2] + y[2], x[3] + y[3]))

\* x - y
FloatSub(x, y) == IF y = FloatZero THEN x ELSE FloatAdd(x, FloatNeg(y))

\* x < y
FloatLess(x, y) ==
    \/ x[1] < y[1]
    \/ x[1] = y[1] /\ (x[2] < y[2] \/ (x[2] = y[2] /\ x[3] < y[3]))

\* COUNT(*) over the selected rows.
SqlCount(rows) == Cardinality(rows)

\* COALESCE(x, d) on an aggregate's result
Coalesce(x, d) == IF x = {} THEN d ELSE CHOOSE v \in x : TRUE

\* Python's `x or d` on a number: 0 is falsy.
PyOr(x, d) == IF x = FloatZero THEN d ELSE x

\* CASE WHEN transaction_type = <type> THEN amount ELSE 0 END
CaseAmount(r, type) == IF r.transaction_type = type THEN r.amount ELSE FloatZero

\* The running total of SUM(CASE WHEN transaction_type = <type> THEN amount
\* ELSE 0 END) over the selected rows: SQLite scans the table in rowid order
\* and adds each value to a double (the sum() of SQLite 3.40).
RECURSIVE SumCase(_, _)
SumCase(rows, type) ==
    IF rows = {} THEN FloatZero
    ELSE LET r == CHOOSE x \in rows : \A y \in rows : y.id <= x.id
         IN FloatAdd(SumCase(rows \ {r}, type), CaseAmount(r, type))

\* SUM(CASE ... END) as SQL returns it: {} is NULL, the result when no row is
\* selected, and {v} is the value v.
SqlSumCase(rows, type) == IF rows = {} THEN {} ELSE {SumCase(rows, type)}

\* Mutant of UserRows: the WHERE clause lost its user_id test.
UserRowsAnyUser(tbl, user_id) == tbl

\* ... FROM transactions WHERE user_id = ?
UserRows(tbl, user_id) == {r \in tbl : r.user_id = user_id}

\* Mutant of UserCategoryRows: the WHERE clause lost its user_id test.
UserCategoryRowsAnyUser(tbl, user_id, category) ==
    {r \in tbl : r.category = category}

\* ... FROM transactions WHERE user_id = ? AND category = <category>
UserCategoryRows(tbl, user_id, category) ==
    {r \in tbl : r.user_id = user_id /\ r.category = category}

\* The SELECT of one category's income and expense sums.
CategorySums(tbl, user_id, category) ==
    LET rows == UserCategoryRows(tbl, user_id, category)
    IN [income |-> Coalesce(SqlSumCase(rows, "income"), FloatZero),
        expense |-> Coalesce(SqlSumCase(rows, "expenditure"), FloatZero)]

\* total_balance as the returned dict computes it.
TotalBalance(cash_income, cash_expense, non_cash_income, non_cash_expense) ==
    FloatSub(FloatAdd(cash_income, non_cash_income),
             FloatAdd(cash_expense, non_cash_expense))

\* The dict get_user_totals returns, from what its five queries fetched.
TotalsDict(total_transactions, cash, non_cash, cash_count, non_cash_count) ==
    LET cash_income == PyOr(cash.income, FloatZero)
        cash_expense == PyOr(cash.expense, FloatZero)
        cash_balance == FloatSub(cash_income, cash_expense)
        non_cash_income == PyOr(non_cash.income, FloatZero)
        non_cash_expense == PyOr(non_cash.expense, FloatZero)
        non_cash_balance == FloatSub(non_cash_income, non_cash_expense)
    IN [total_transactions |-> total_transactions,
        cash_count |-> cash_count,
        non_cash_count |-> non_cash_count,
        cash_income |-> cash_income,
        cash_expense |-> cash_expense,
        cash_balance |-> cash_balance,
        non_cash_income |-> non_cash_income,
        non_cash_expense |-> non_cash_expense,
        non_cash_balance |-> non_cash_balance,
        total_income |-> FloatAdd(cash_income, non_cash_income),
        total_expense |-> FloatAdd(cash_expense, non_cash_expense),
        total_balance |-> TotalBalance(cash_income, cash_expense,
                                       non_cash_income, non_cash_expense)]

\* get_user_totals(user_id) with all five queries reading the table tbl:
\* the call as it runs when no other request commits in between.
get_user_totals(tbl, user_id) ==
    TotalsDict(SqlCount(UserRows(tbl, user_id)),
               CategorySums(tbl, user_id, "cash"),
               CategorySums(tbl, user_id, "non_cash"),
               SqlCount(UserCategoryRows(tbl, user_id, "cash")),
               SqlCount(UserCategoryRows(tbl, user_id, "non_cash")))

(***************************************************************************)
(* Requests and responses                                                  *)
(***************************************************************************)
\* `request` is the request answered last.  What its handler answered:
\*   "success"   flash(..., 'success') and a redirect, or the ORM variant's
\*               plain redirect after recalc_saldo()
\*   "not_found" flash('Transaksi tidak ditemukan!', 'danger') and a redirect
\*   "page"      a rendered template
\*   "error"     an exception left the handler (HTTP 400/500); the
\*               connection or session is discarded without a commit

\* No get_user_totals is running beside the requests.  A running call holds
\* its position (the query it executes next), its argument and what its
\* queries fetched so far; reads is the set of tables, as committed, that
\* its queries have read.
NoCall ==
    [pc |-> "idle", user_id |-> 0, total_transactions |-> 0,
     cash |-> [income |-> FloatZero, expense |-> FloatZero],
     non_cash |-> [income |-> FloatZero, expense |-> FloatZero],
     cash_count |-> 0, non_cash_count |-> 0, reads |-> {}]

\* A clock reading: time does not run backwards, and two readings may tie.
ClockReadings == {t \in now .. now + 1 : t <= MaxClock}

(***************************************************************************)
(* src/app.py: the raw-SQL variant                                         *)
(***************************************************************************)
\* The amount a handler of app.py reads: request.form.get('amount', 0).
FormAmountOrDefault(form) == IF form.amount = None THEN "0" ELSE form.amount

\* A NOT NULL column of transactions would receive NULL.
NotNullViolated(form) ==
    None \in {form.description, form.category, form.transaction}

\* INSERT INTO transactions (user_id, description, category,
\* transaction_type, amount): id from AUTOINCREMENT, transaction_date from
\* DEFAULT CURRENT_TIMESTAMP.
InsertTransaction(id, user_id, form, amount, date) ==
    [id |-> id, user_id |-> user_id, description |-> form.description,
     category |-> form.category, transaction_type |-> form.transaction,
     amount |-> amount, transaction_date |-> date]

\* UPDATE transactions SET description, category, transaction_type, amount
\* on one row.
UpdateTransaction(r, form, amount) ==
    [r EXCEPT !.description = form.description, !.category = form.category,
              !.transaction_type = form.transaction, !.amount = amount]

\* Mutant of OwnRow: the WHERE clause lost its user_id test.
OwnRowAnyUser(r, id, user_id) == r.id = id

\* Mutant of OwnRow: the WHERE clause lost its id test.
OwnRowAnyId(r, id, user_id) == r.user_id = user_id

\* ... WHERE id = ? AND user_id = ?
OwnRow(r, id, user_id) == r.id = id /\ r.user_id = user_id

\* The handlers of app.py open a connection, execute, commit and close,
\* with no try/finally.  When c.execute raises sqlite3.IntegrityError the
\* handler is left before conn.commit() and conn.close(): the transaction
\* the sqlite3 module began before the statement stays open, and the
\* connection keeps the write lock until the interpreter destroys it.
\* While it does, a handler that writes waits out its timeout and raises
\* sqlite3.OperationalError('database is locked'); SELECTs still read.

\* POST /add_transaction
add_transaction(user, form) ==
    /\ variant = "app"
    /\ request' = Req("add_transaction", 0)
    /\ UNCHANGED totals_call
    /\ UNCHANGED <<variant, cashflow, pending, started>>
    /\ IF FloatRaises(FormAmountOrDefault(form))
       THEN /\ response' = "error"       \* ValueError, before any statement
            /\ UNCHANGED <<transactions, seq, now, db_locked>>
       ELSE IF db_locked
       THEN /\ response' = "error"       \* OperationalError
            /\ UNCHANGED <<transactions, seq, now, db_locked>>
       ELSE IF NotNullViolated(form)
       THEN /\ response' = "error"       \* IntegrityError
            /\ db_locked' = TRUE
            /\ UNCHANGED <<transactions, seq, now>>
       ELSE /\ seq < MaxId
            /\ \E t \in ClockReadings :
                 /\ now' = t
                 /\ transactions' = transactions \cup
                      {InsertTransaction(seq + 1, user, form,
                                         Float(FormAmountOrDefault(form)), t)}
            /\ seq' = seq + 1
            /\ response' = "success"
            /\ UNCHANGED db_locked

\* GET /edit_transaction/<id>
edit_transaction_get(user, id) ==
    /\ variant = "app"
    /\ request' = Req("edit_transaction_get", 0)
    /\ UNCHANGED totals_call
    /\ response' = IF \E r \in transactions : OwnRow(r, id, user)
                   THEN "page" ELSE "not_found"
    /\ UNCHANGED <<variant, transactions, seq, db_locked, cashflow, pending, started, now>>

\* POST /edit_transaction/<id>
edit_transaction(user, id, form) ==
    /\ variant = "app"
    /\ request' = Req("edit_transaction", id)
    /\ UNCHANGED totals_call
    /\ UNCHANGED <<variant, seq, cashflow, pending, started, now>>
    /\ IF FloatRaises(FormAmountOrDefault(form))
       THEN /\ response' = "error"       \* ValueError, before any statement
            /\ UNCHANGED <<transactions, db_locked>>
       ELSE IF db_locked
       THEN /\ response' = "error"       \* OperationalError
            /\ UNCHANGED <<transactions, db_locked>>
       ELSE IF NotNullViolated(form) /\ \E r \in transactions : OwnRow(r, id, user)
       THEN /\ response' = "error"       \* IntegrityError
            /\ db_locked' = TRUE
            /\ UNCHANGED transactions
       ELSE /\ transactions' =
                 {IF OwnRow(r, id, user)
                  THEN UpdateTransaction(r, form, Float(FormAmountOrDefault(form)))
                  ELSE r : r \in transactions}
            /\ response' = "success"
            /\ UNCHANGED db_locked

\* GET /delete_transaction/<id>
delete_transaction(user, id) ==
    /\ variant = "app"
    /\ request' = Req("delete_transaction", 0)
    /\ UNCHANGED totals_call
    /\ UNCHANGED <<variant, seq, db_locked, cashflow, pending, started, now>>
    /\ IF db_locked
       THEN /\ response' = "error"       \* OperationalError
            /\ UNCHANGED transactions
       ELSE /\ transactions' = {r \in transactions : ~OwnRow(r, id, user)}
            /\ response' = "success"

\* GET /clear_all_transactions
clear_all_transactions(user) ==
    /\ variant = "app"
    /\ request' = Req("clear_all_transactions", 0)
    /\ UNCHANGED totals_call
    /\ UNCHANGED <<variant, seq, db_locked, cashflow, pending, started, now>>
    /\ IF db_locked
       THEN /\ response' = "error"       \* OperationalError
            /\ UNCHANGED transactions
       ELSE /\ transactions' = {r \in transactions : r.user_id # user}
            /\ response' = "success"

\* The interpreter destroys the connection a failed handler left behind
\* (it sits in a reference cycle, so only the cycle collector reaches it):
\* its transaction is rolled back and the write lock is released.
connection_collected ==
    /\ variant = "app"
    /\ db_locked
    /\ db_locked' = FALSE
    /\ UNCHANGED <<variant, transactions, seq, cashflow, pending, started, now, request, response,
                   totals_call>>

\* SQLite folds the ASCII upper-case letters for LIKE.
Lower(c) == IF c = "O" THEN "o" ELSE IF c = "P" THEN "p" ELSE c

\* text LIKE pattern on character sequences: % matches any run of
\* characters, _ any one character, any other character itself without
\* regard to case.
RECURSIVE Like(_, _)
Like(text, pattern) ==
    IF pattern = <<>> THEN text = <<>>
    ELSE IF Head(pattern) = "%"
         THEN Like(text, Tail(pattern))
                \/ (text # <<>> /\ Like(Tail(text), pattern))
         ELSE /\ text # <<>>
              /\ Head(pattern) = "_" \/ Lower(Head(pattern)) = Lower(Head(text))
              /\ Like(Tail(text), Tail(pattern))

\* The pattern the listing binds: f'%{search}%'.
SearchPattern(search) == <<"%">> \o Chars[search] \o <<"%">>

\* The WHERE clause the listing builds: user_id always, a category and a
\* type test unless the parameter is 'all', a LIKE test unless search is
\* empty.
ListingWhere(r, user_id, category, trans_type, search) ==
    /\ r.user_id = user_id
    /\ category # "all" => r.category = category
    /\ trans_type # "all" => r.transaction_type = trans_type
    /\ search # "" => Like(Chars[r.description], SearchPattern(search))

\* ORDER BY transaction_date DESC: rows of equal date in rowid order.
RECURSIVE OrderByTransactionDateDesc(_)
OrderByTransactionDateDesc(rows) ==
    IF rows = {} THEN <<>>
    ELSE LET first == CHOOSE r \in rows :
                          \A q \in rows :
                              r.transaction_date > q.transaction_date
                                \/ (r.transaction_date = q.transaction_date
                                      /\ r.id <= q.id)
         IN <<first>> \o OrderByTransactionDateDesc(rows \ {first})

\* GET /transactions: the records handed to transactions.html, without
\* display_date, the formatted timestamp, which no property here reads.
transactions_records(tbl, user_id, category, trans_type, search) ==
    LET rows == OrderByTransactionDateDesc(
                    {r \in tbl : ListingWhere(r, user_id, category, trans_type, search)})
    IN [i \in 1 .. Len(rows) |->
          [id |-> rows[i].id, description |-> rows[i].description,
           category |-> rows[i].category,
           transaction_type |-> rows[i].transaction_type,
           amount |-> rows[i].amount]]

\* What the reports view makes of a ratio: the doubles num and den of the
\* percentage (num / den) * times, or the ZeroDivisionError the division
\* raises.  The literal 0 of the else branches is (0 / 1) * 100.
ZeroRatio ==
    [raises |-> FALSE, num |-> FloatZero, den |-> FloatOfInt(1), times |-> 100]

\* (a / b) * 100 on doubles
Percent(a, b) ==
    IF b = FloatZero THEN [ZeroRatio EXCEPT !.raises = TRUE]
    ELSE [raises |-> FALSE, num |-> a, den |-> b, times |-> 100]

\* Mutant of RatioDefined: the income and expense ratios are always computed.
RatioDefinedAlways(totals) == TRUE

\* ... if (totals['total_income'] + totals['total_expense']) > 0 else 0
RatioDefined(totals) ==
    FloatLess(FloatZero, FloatAdd(totals.total_income, totals.total_expense))

\* GET /reports: the stats dict computed from get_user_totals' dict.  The
\* division converts the counts to doubles.
reports_stats(totals) ==
    IF totals.total_transactions > 0
    THEN [cash_ratio |-> Percent(FloatOfInt(totals.cash_count),
                                 FloatOfInt(totals.total_transactions)),
          non_cash_ratio |-> Percent(FloatOfInt(totals.non_cash_count),
                                     FloatOfInt(totals.total_transactions)),
          income_ratio |->
              IF RatioDefined(totals)
              THEN Percent(totals.total_income,
                           FloatAdd(totals.total_income, totals.total_expense))
              ELSE ZeroRatio,
          expense_ratio |->
              IF RatioDefined(totals)
              THEN Percent(totals.total_expense,
                           FloatAdd(totals.total_income, totals.total_expense))
              ELSE ZeroRatio]
    ELSE [cash_ratio |-> ZeroRatio, non_cash_ratio |-> ZeroRatio,
          income_ratio |-> ZeroRatio, expense_ratio |-> ZeroRatio]

(***************************************************************************)
(* src/routes/cashflow.py and src/models.py: the ORM variant               *)
(***************************************************************************)
\* request.form[k] raises BadRequestKeyError (HTTP 400) on a missing key.
FormKeyMissing(form) ==
    None \in {form.description, form.category, form.transaction, form.amount}

\* The id SQLite gives a new Cashflow row: INTEGER PRIMARY KEY without
\* AUTOINCREMENT is the rowid, one more than the largest rowid in the table.
NextRowid(recs) ==
    IF recs = {} THEN 1
    ELSE (CHOOSE i \in {r.id : r \in recs} : \A r \in recs : r.id <= i) + 1

\* Cashflow.query.get(id): the set holding the row, empty for None.
QueryGet(recs, id) == {r \in recs : r.id = id}

\* Cashflow.query.order_by(Cashflow.date).all(): the rows ascending by date.
\* The query names no second key; SQLite reads the table in rowid order and
\* its sorter keeps rows of equal date in that order, so ties come by id.
RECURSIVE OrderByDate(_)
OrderByDate(recs) ==
    IF recs = {} THEN <<>>
    ELSE LET first == CHOOSE r \in recs :
                          \A q \in recs : r.date < q.date
                                             \/ (r.date = q.date /\ r.id <= q.id)
         IN <<first>> \o OrderByDate(recs \ {first})

\* The signed amount recalc_saldo adds to an accumulator.
SaldoDelta(r) == IF r.transaction = "income" THEN r.amount ELSE FloatNeg(r.amount)

\* The loop of recalc_saldo from position i with the accumulators so far.
RECURSIVE RecalcLoop(_, _, _, _)
RecalcLoop(records, i, cash, non_cash) ==
    IF i > Len(records) THEN {}
    ELSE LET r == records[i]
             cash2 == IF r.category = "cash" THEN FloatAdd(cash, SaldoDelta(r))
                      ELSE cash
             non_cash2 == IF r.category = "cash" THEN non_cash
                          ELSE FloatAdd(non_cash, SaldoDelta(r))
         IN {[r EXCEPT !.saldo_cash = cash2, !.saldo_non_cash = non_cash2]}
              \cup RecalcLoop(records, i + 1, cash2, non_cash2)

\* recalc_saldo() on the rows as the query returned them: the table after
\* its commit.
recalc_saldo(records) == RecalcLoop(records, 1, FloatZero, FloatZero)

(***************************************************************************)
\* The session of a request.  Every request has a session of its own, which
\* holds the rows its queries loaded.  pysqlite sends no BEGIN before a
\* SELECT, so between a query and the next commit the connection holds no
\* lock and other requests commit.  db.session.commit() flushes: for every
\* loaded row, an UPDATE of the columns whose value differs from the value
\* loaded (UPDATE ... WHERE id = ?), a DELETE for a row marked deleted, an
\* INSERT for a row added; the flush and its COMMIT are one transaction.
\* The flush evaluates the Python-side column default of a row added,
\* datetime.utcnow(), when it collects the parameters of the INSERT: the
\* clock is read before the INSERT is executed and takes the write lock,
\* and other requests commit in between.  SQLite gives the row its id when
\* it executes the INSERT.  An
\* UPDATE that matches no row raises StaleDataError and the transaction is
\* rolled back; a DELETE that matches no row only warns.
(***************************************************************************)
\* A column write of a flush: <<id, column, value>>; the id is 0 for the
\* columns of a row to be inserted, which has no id yet.
\* A request in flight: pc is "loaded" (the row is read, the handler's own
\* commit is to come), "dated" (POST /: the flush has read the clock for the
\* new row, its INSERT and commit are to come), "committed" (recalc_saldo()
\* is to be called) or
\* "selected" (recalc_saldo() has read the table, its commit is to come);
\* writes is what the coming commit flushes.
InFlight(route, id, pc, writes) ==
    [route |-> route, id |-> id, pc |-> pc, writes |-> writes]

\* The request of a request in flight, as `request` records it.
RequestOf(s) == Req(s.route, 0)

\* The requests in flight are a bag: a function from the requests in it to
\* how many of each there are.
NoneInFlight == <<>>

\* How many requests are in flight.
RECURSIVE InFlightCount(_)
InFlightCount(bag) ==
    IF DOMAIN bag = {} THEN 0
    ELSE LET s == CHOOSE x \in DOMAIN bag : TRUE
         IN bag[s] + InFlightCount([x \in DOMAIN bag \ {s} |-> bag[x]])

\* The bag with one more copy of s.
Enter(bag, s) ==
    IF s \in DOMAIN bag THEN [bag EXCEPT ![s] = @ + 1] ELSE bag @@ (s :> 1)

\* The bag without one copy of s.
Leave(bag, s) ==
    IF bag[s] > 1 THEN [bag EXCEPT ![s] = @ - 1]
    ELSE [x \in DOMAIN bag \ {s} |-> bag[x]]

\* The bag without one copy of s and with one of t.
Replace(bag, s, t) == Enter(Leave(bag, s), t)

\* The value of a column of row r once the writes are applied.
Written(r, column, writes) ==
    LET set == {w \in writes : w[1] = r.id /\ w[2] = column}
    IN IF set = {} THEN r[column] ELSE (CHOOSE w \in set : TRUE)[3]

\* The table after the UPDATEs of a flush.
ApplyWrites(recs, writes) ==
    {[id |-> r.id, date |-> r.date,
      description |-> Written(r, "description", writes),
      category |-> Written(r, "category", writes),
      transaction |-> Written(r, "transaction", writes),
      amount |-> Written(r, "amount", writes),
      saldo_cash |-> Written(r, "saldo_cash", writes),
      saldo_non_cash |-> Written(r, "saldo_non_cash", writes)] : r \in recs}

\* An UPDATE of the flush names a row that is no longer in the table.
StaleData(recs, writes) == \E w \in writes : ~ \E r \in recs : r.id = w[1]

\* A further ORM request may get past its first statement.
Admitted == started < MaxRequests /\ InFlightCount(pending) < MaxPending

\* The column values of the INSERT of a new Cashflow row: the four the
\* handler sets and the date the flush takes from the clock.
InsertWrites(form, date) ==
    {<<0, "description", form.description>>, <<0, "category", form.category>>,
     <<0, "transaction", form.transaction>>, <<0, "amount", Float(form.amount)>>,
     <<0, "date", date>>}

\* The value an INSERT carries for a column.
InsertValue(writes, column) == (CHOOSE w \in writes : w[2] = column)[3]

\* The row an INSERT stores under the id SQLite gives it: Cashflow(
\* description, category, transaction, amount) with its date and with both
\* saldo columns from default=0.
InsertedRow(id, writes) ==
    [id |-> id, date |-> InsertValue(writes, "date"),
     description |-> InsertValue(writes, "description"),
     category |-> InsertValue(writes, "category"),
     transaction |-> InsertValue(writes, "transaction"),
     amount |-> InsertValue(writes, "amount"),
     saldo_cash |-> FloatZero, saldo_non_cash |-> FloatZero]

\* How many POST / in flight have their INSERT to come.
InsertsToCome ==
    InFlightCount([s \in {x \in DOMAIN pending : x.pc = "dated"} |-> pending[s]])

\* POST /: lines 23-31 up to the flush of db.session.commit(), which reads
\* the clock for the date of the new row.  (Ids are capped: the row fits in
\* with the rows of the table and of the INSERTs to come.)
index_post(form) ==
    /\ variant = "orm"
    /\ UNCHANGED totals_call
    /\ UNCHANGED <<variant, transactions, seq, db_locked, cashflow>>
    /\ IF FormKeyMissing(form) \/ FloatRaises(form.amount)
       THEN /\ request' = Req("index_post", 0)
            /\ response' = "error"
            /\ UNCHANGED <<pending, started, now>>
       ELSE /\ Admitted
            /\ started' = started + 1
            /\ NextRowid(cashflow) + InsertsToCome <= MaxId
            /\ \E t \in ClockReadings :
                 /\ now' = t
                 /\ pending' = Enter(pending, InFlight("index_post", 0, "dated",
                                                       InsertWrites(form, t)))
            /\ UNCHANGED <<request, response>>

\* POST /: line 31, the INSERT and its commit.  The row gets the next rowid
\* of the table as it is now and the date read before.
index_post_commit(s) ==
    /\ variant = "orm"
    /\ s \in DOMAIN pending
    /\ s.route = "index_post" /\ s.pc = "dated"
    /\ cashflow' = cashflow \cup {InsertedRow(NextRowid(cashflow), s.writes)}
    /\ pending' = Replace(pending, s, InFlight("index_post", 0, "committed", {}))
    /\ UNCHANGED <<variant, transactions, seq, db_locked, started, now, request,
                   response, totals_call>>

\* Cashflow.query.order_by(Cashflow.date.desc()).all(): the rows descending
\* by date, rows of equal date in rowid order.
RECURSIVE OrderByDateDesc(_)
OrderByDateDesc(recs) ==
    IF recs = {} THEN <<>>
    ELSE LET first == CHOOSE r \in recs :
                          \A q \in recs : r.date > q.date
                                             \/ (r.date = q.date /\ r.id <= q.id)
         IN <<first>> \o OrderByDateDesc(recs \ {first})

\* GET / without a month: what index() passes to index.html.  (With a month
\* the handler evaluates Cashflow.date.strftime, which the column attribute
\* does not have, and the request ends in an error.)
index_get(recs) ==
    LET records == OrderByDateDesc(recs)
    IN [records |-> records,
        cash_total |-> IF records # <<>> THEN records[Len(records)].saldo_cash
                       ELSE FloatZero,
        non_cash_total |-> IF records # <<>>
                           THEN records[Len(records)].saldo_non_cash ELSE FloatZero]

\* Mutant of DeleteWhereId: the DELETE lost its WHERE clause.
DeleteWhereAnyId(recs, id) == {}

\* DELETE FROM cashflow WHERE id = ?: the table after it.
DeleteWhereId(recs, id) == {r \in recs : r.id # id}

\* GET /delete/<id>: line 55, the row is read and marked deleted
delete(id) ==
    /\ variant = "orm"
    /\ UNCHANGED totals_call
    /\ UNCHANGED <<variant, transactions, seq, db_locked, cashflow, now>>
    /\ IF QueryGet(cashflow, id) = {}
       THEN /\ request' = Req("delete", 0)
            /\ response' = "error"       \* db.session.delete(None) raises
            /\ UNCHANGED <<pending, started>>
       ELSE /\ Admitted
            /\ started' = started + 1
            /\ pending' = Enter(pending, InFlight("delete", id, "loaded", {}))
            /\ UNCHANGED <<request, response>>

\* GET /delete/<id>: line 56, the DELETE and its commit.  The row may be
\* gone by now: the DELETE then matches nothing and the commit succeeds.
delete_commit(s) ==
    /\ variant = "orm"
    /\ s \in DOMAIN pending
    /\ s.route = "delete" /\ s.pc = "loaded"
    /\ cashflow' = DeleteWhereId(cashflow, s.id)
    /\ pending' = Replace(pending, s, InFlight("delete", s.id, "committed", {}))
    /\ UNCHANGED <<variant, transactions, seq, db_locked, started, now, request,
                   response, totals_call>>

\* GET /edit/<id>
edit_get(id) ==
    /\ variant = "orm"
    /\ request' = Req("edit_get", 0)
    /\ UNCHANGED totals_call
    /\ UNCHANGED <<variant, transactions, seq, db_locked, cashflow, pending, started, now>>
    /\ IF QueryGet(cashflow, id) = {}
       THEN response' \in {"page", "error"}   \* edit.html is rendered with data=None
       ELSE response' = "page"

\* The columns lines 64-67 set to a value other than the one loaded: what
\* the flush of line 68 writes.
EditWrites(r, form) ==
    (IF form.description # r.description
     THEN {<<r.id, "description", form.description>>} ELSE {})
    \cup (IF form.category # r.category
          THEN {<<r.id, "category", form.category>>} ELSE {})
    \cup (IF form.transaction # r.transaction
          THEN {<<r.id, "transaction", form.transaction>>} ELSE {})
    \cup (IF Float(form.amount) # r.amount
          THEN {<<r.id, "amount", Float(form.amount)>>} ELSE {})

\* POST /edit/<id>: lines 62-67, the row is read and its attributes are set
edit(id, form) ==
    /\ variant = "orm"
    /\ UNCHANGED totals_call
    /\ UNCHANGED <<variant, transactions, seq, db_locked, cashflow, now>>
    /\ IF QueryGet(cashflow, id) = {} \/ FormKeyMissing(form) \/ FloatRaises(form.amount)
       THEN /\ request' = Req("edit", 0)
            /\ response' = "error"       \* nothing was committed
            /\ UNCHANGED <<pending, started>>
       ELSE /\ Admitted
            /\ started' = started + 1
            /\ \E r \in QueryGet(cashflow, id) :
                 pending' = Enter(pending, InFlight("edit", id, "loaded", EditWrites(r, form)))
            /\ UNCHANGED <<request, response>>

\* POST /edit/<id>: line 68, the UPDATE and its commit
edit_commit(s) ==
    /\ variant = "orm"
    /\ s \in DOMAIN pending
    /\ s.route = "edit" /\ s.pc = "loaded"
    /\ UNCHANGED <<variant, transactions, seq, db_locked, started, now, totals_call>>
    /\ IF StaleData(cashflow, s.writes)
       THEN /\ request' = RequestOf(s)
            /\ response' = "error"       \* StaleDataError
            /\ pending' = Leave(pending, s)
            /\ UNCHANGED cashflow
       ELSE /\ cashflow' = ApplyWrites(cashflow, s.writes)
            /\ pending' = Replace(pending, s, InFlight("edit", s.id, "committed", {}))
            /\ UNCHANGED <<request, response>>

\* What lines 11-18 set on the rows line 10 loaded, where it differs from
\* the value loaded: what the flush of line 19 writes.
SaldoWrites(recs) ==
    LET balanced == recalc_saldo(OrderByDate(recs))
    IN UNION {LET r == CHOOSE x \in recs : x.id = q.id
              IN (IF q.saldo_cash # r.saldo_cash
                  THEN {<<r.id, "saldo_cash", q.saldo_cash>>} ELSE {})
                 \cup (IF q.saldo_non_cash # r.saldo_non_cash
                       THEN {<<r.id, "saldo_non_cash", q.saldo_non_cash>>} ELSE {})
              : q \in balanced}

\* recalc_saldo(), lines 10-18, called from line 32, 57 or 69: the table is
\* read and the balances are set on the rows loaded
recalc_saldo_select(s) ==
    /\ variant = "orm"
    /\ s \in DOMAIN pending
    /\ s.pc = "committed"
    /\ pending' = Replace(pending, s,
                          InFlight(s.route, s.id, "selected", SaldoWrites(cashflow)))
    /\ UNCHANGED <<variant, transactions, seq, db_locked, cashflow, started, now,
                   request, response, totals_call>>

\* recalc_saldo(), line 19: the UPDATEs and their commit; the handler then
\* redirects
recalc_saldo_commit(s) ==
    /\ variant = "orm"
    /\ s \in DOMAIN pending
    /\ s.pc = "selected"
    /\ request' = RequestOf(s)
    /\ pending' = Leave(pending, s)
    /\ UNCHANGED <<variant, transactions, seq, db_locked, started, now, totals_call>>
    /\ IF StaleData(cashflow, s.writes)
       THEN /\ response' = "error"       \* StaleDataError
            /\ UNCHANGED cashflow
       ELSE /\ cashflow' = ApplyWrites(cashflow, s.writes)
            /\ response' = "success"

(***************************************************************************)
(* Specification                                                           *)
(***************************************************************************)
\* Ids a request may name: an id is unknown until its row is inserted, and
\* again once the row is deleted.
Ids == 1 .. MaxId

\* What the database file of the ORM variant holds when the server starts:
\* nothing, or the record a POST / of an earlier run stored, with the
\* balances its recalc_saldo() wrote.
StoredTables ==
    { {},
      recalc_saldo(OrderByDate(
          {InsertedRow(1, InsertWrites(Form("gaji", "cash", "income", "2"), 0))})) }

Init ==
    /\ variant \in {"app", "orm"}
    /\ transactions = {}
    /\ seq = 0
    /\ db_locked = FALSE
    /\ cashflow \in (IF variant = "orm" THEN StoredTables ELSE {{}})
    /\ pending = NoneInFlight
    /\ started = 0
    /\ now = 0
    /\ request = Req("none", 0)
    /\ response = "none"
    /\ totals_call = NoCall

Next ==
    \/ \E u \in Users : \E f \in AddForms(u) : add_transaction(u, f)
    \/ \E u \in Users, i \in Ids : edit_transaction_get(u, i)
    \/ \E u \in Users, i \in Ids, f \in EditForms : edit_transaction(u, i, f)
    \/ \E u \in Users, i \in Ids : delete_transaction(u, i)
    \/ \E u \in Users : clear_all_transactions(u)
    \/ connection_collected
    \/ \E f \in CashflowForms : index_post(f)
    \/ \E i \in Ids : delete(i)
    \/ \E i \in Ids : edit_get(i)
    \/ \E i \in Ids, f \in EditForms : edit(i, f)
    \/ \E s \in DOMAIN pending : index_post_commit(s)
    \/ \E s \in DOMAIN pending : delete_commit(s)
    \/ \E s \in DOMAIN pending : edit_commit(s)
    \/ \E s \in DOMAIN pending : recalc_saldo_select(s)
    \/ \E s \in DOMAIN pending : recalc_saldo_commit(s)

Spec == Init /\ [][Next]_vars

\* A deployment of src/app.py.
InitApp == Init /\ variant = "app"

NextApp ==
    \/ \E u \in Users : \E f \in AddForms(u) : add_transaction(u, f)
    \/ \E u \in Users, i \in Ids : edit_transaction_get(u, i)
    \/ \E u \in Users, i \in Ids, f \in EditForms : edit_transaction(u, i, f)
    \/ \E u \in Users, i \in Ids : delete_transaction(u, i)
    \/ \E u \in Users : clear_all_transactions(u)
    \/ connection_collected

SpecApp == InitApp /\ [][NextApp]_vars

\* A deployment of src/routes/cashflow.py.
InitOrm == Init /\ variant = "orm"

NextOrm ==
    \/ \E f \in CashflowForms : index_post(f)
    \/ \E i \in Ids : delete(i)
    \/ \E i \in Ids : edit_get(i)
    \/ \E i \in Ids, f \in EditForms : edit(i, f)
    \/ \E s \in DOMAIN pending : index_post_commit(s)
    \/ \E s \in DOMAIN pending : delete_commit(s)
    \/ \E s \in DOMAIN pending : edit_commit(s)
    \/ \E s \in DOMAIN pending : recalc_saldo_select(s)
    \/ \E s \in DOMAIN pending : recalc_saldo_commit(s)

SpecOrm == InitOrm /\ [][NextOrm]_vars

(***************************************************************************)
(* get_user_totals beside other requests (src/app.py)                      *)
(*                                                                         *)
(* app.run serves each request on a thread of its own, and every handler   *)
(* opens its own sqlite3 connection.  get_user_totals opens no transaction *)
(* (the sqlite3 module begins one only before INSERT, UPDATE and DELETE),  *)
(* so each of its five SELECTs reads the table as committed at that        *)
(* moment.  A writing handler executes one statement and commits: one      *)
(* step.                                                                   *)
(***************************************************************************)
\* conn = get_db_connection(); c = conn.cursor()
totals_open(user) ==
    /\ totals_call.pc = "idle"
    /\ totals_call' = [NoCall EXCEPT !.pc = "count", !.user_id = user]
    /\ UNCHANGED <<variant, transactions, seq, db_locked, cashflow, pending, started, now, request, response>>

\* SELECT COUNT(*) FROM transactions WHERE user_id = ?
totals_count ==
    /\ totals_call.pc = "count"
    /\ totals_call' =
         [totals_call EXCEPT
            !.pc = "cash",
            !.total_transactions = SqlCount(UserRows(transactions, totals_call.user_id)),
            !.reads = @ \cup {transactions}]
    /\ UNCHANGED <<variant, transactions, seq, db_locked, cashflow, pending, started, now, request, response>>

\* SELECT COALESCE(SUM(...)), COALESCE(SUM(...)) ... AND category = 'cash'
totals_cash ==
    /\ totals_call.pc = "cash"
    /\ totals_call' =
         [totals_call EXCEPT
            !.pc = "non_cash",
            !.cash = CategorySums(transactions, totals_call.user_id, "cash"),
            !.reads = @ \cup {transactions}]
    /\ UNCHANGED <<variant, transactions, seq, db_locked, cashflow, pending, started, now, request, response>>

\* SELECT COALESCE(SUM(...)), COALESCE(SUM(...)) ... AND category = 'non_cash'
totals_non_cash ==
    /\ totals_call.pc = "non_cash"
    /\ totals_call' =
         [totals_call EXCEPT
            !.pc = "cash_count",
            !.non_cash = CategorySums(transactions, totals_call.user_id, "non_cash"),
            !.reads = @ \cup {transactions}]
    /\ UNCHANGED <<variant, transactions, seq, db_locked, cashflow, pending, started, now, request, response>>

\* SELECT COUNT(*) ... AND category = 'cash'
totals_cash_count ==
    /\ totals_call.pc = "cash_count"
    /\ totals_call' =
         [totals_call EXCEPT
            !.pc = "non_cash_count",
            !.cash_count =
                SqlCount(UserCategoryRows(transactions, totals_call.user_id, "cash")),
            !.reads = @ \cup {transactions}]
    /\ UNCHANGED <<variant, transactions, seq, db_locked, cashflow, pending, started, now, request, response>>

\* SELECT COUNT(*) ... AND category = 'non_cash'; conn.close()
totals_non_cash_count ==
    /\ totals_call.pc = "non_cash_count"
    /\ totals_call' =
         [totals_call EXCEPT
            !.pc = "return",
            !.non_cash_count =
                SqlCount(UserCategoryRows(transactions, totals_call.user_id, "non_cash")),
            !.reads = @ \cup {transactions}]
    /\ UNCHANGED <<variant, transactions, seq, db_locked, cashflow, pending, started, now, request, response>>

\* The dict the call is about to return.
totals_result ==
    TotalsDict(totals_call.total_transactions, totals_call.cash,
               totals_call.non_cash, totals_call.cash_count,
               totals_call.non_cash_count)

\* return {...}
totals_return ==
    /\ totals_call.pc = "return"
    /\ totals_call' = NoCall
    /\ UNCHANGED <<variant, transactions, seq, db_locked, cashflow, pending, started, now, request, response>>

InitConcurrent == InitApp

NextConcurrent ==
    \/ \E u \in Users, f \in ConcurrentAddForms : add_transaction(u, f)
    \/ \E u \in Users, i \in Ids, f \in ConcurrentEditForms : edit_transaction(u, i, f)
    \/ \E u \in Users, i \in Ids : delete_transaction(u, i)
    \/ \E u \in Users : clear_all_transactions(u)
    \/ \E u \in Users : totals_open(u)
    \/ totals_count
    \/ totals_cash
    \/ totals_non_cash
    \/ totals_cash_count
    \/ totals_non_cash_count
    \/ totals_return

SpecConcurrent == InitConcurrent /\ [][NextConcurrent]_vars

(***************************************************************************)
(* get_user_totals on the ledgers a user builds up (src/app.py)            *)
(***************************************************************************)
\* The tables n POST /add_transaction of user 1 leave behind, each with one
\* of the ledger forms: ids 1 to n in the order of the requests, all within
\* one reading of the clock.
RECURSIVE Ledgers(_)
Ledgers(n) ==
    IF n = 0 THEN {{}}
    ELSE {tbl \cup {InsertTransaction(n, 1, f, Float(FormAmountOrDefault(f)), 0)} :
            tbl \in Ledgers(n - 1), f \in LedgerForms}

\* A deployment of src/app.py whose database file holds the ledger of up to
\* MaxRows adds of user 1.
InitTotals ==
    /\ variant = "app"
    /\ \E n \in 0 .. MaxRows :
          /\ transactions \in Ledgers(n)
          /\ seq = n
    /\ db_locked = FALSE
    /\ cashflow = {}
    /\ pending = NoneInFlight
    /\ started = 0
    /\ now = 0
    /\ request = Req("none", 0)
    /\ response = "none"
    /\ totals_call = NoCall

\* get_user_totals runs, query by query, and no request writes.
NextTotals ==
    \/ \E u \in Users : totals_open(u)
    \/ totals_count
    \/ totals_cash
    \/ totals_non_cash
    \/ totals_cash_count
    \/ totals_non_cash_count
    \/ totals_return

SpecTotals == InitTotals /\ [][NextTotals]_vars

(***************************************************************************)
(* Claims about get_user_totals (src/app.py)                               *)
(***************************************************************************)
\* The sum of amount over a set of rows, the rows taken in the order they
\* were stored.
RECURSIVE SumAmounts(_)
SumAmounts(rows) ==
    IF rows = {} THEN FloatZero
    ELSE LET r == CHOOSE x \in rows : \A y \in rows : y.id <= x.id
         IN FloatAdd(SumAmounts(rows \ {r}), r.amount)

\* The user's transactions of one (category, transaction_type) bucket.
Bucket(user, category, type) ==
    {r \in transactions :
        r.user_id = user /\ r.category = category /\ r.transaction_type = type}

Totals(user) == get_user_totals(transactions, user)

\* C1: for every stored set of transactions and every user, get_user_totals
\* returns as cash_income, cash_expense, non_cash_income and
\* non_cash_expense the sum of amount over exactly that user's rows of the
\* bucket, and as the two balances income minus expense of the category.
C1_BucketSums ==
    \A u \in Users :
      LET totals == Totals(u) IN
        /\ totals.cash_income = SumAmounts(Bucket(u, "cash", "income"))
        /\ totals.cash_expense = SumAmounts(Bucket(u, "cash", "expenditure"))
        /\ totals.non_cash_income = SumAmounts(Bucket(u, "non_cash", "income"))
        /\ totals.non_cash_expense = SumAmounts(Bucket(u, "non_cash", "expenditure"))
        /\ totals.cash_balance =
             FloatSub(SumAmounts(Bucket(u, "cash", "income")),
                      SumAmounts(Bucket(u, "cash", "expenditure")))
        /\ totals.non_cash_balance =
             FloatSub(SumAmounts(Bucket(u, "non_cash", "income")),
                      SumAmounts(Bucket(u, "non_cash", "expenditure")))

\* C1 witness: both users hold a row, in different buckets, and each user's
\* totals show its own row and nothing of the other's.
C1_Witness ==
    /\ variant = "app"
    /\ response = "success"
    /\ Bucket(1, "cash", "expenditure") # {}
    /\ Bucket(2, "cash", "income") # {}
    /\ Totals(1).cash_expense = Float("1") /\ Totals(1).cash_income = FloatZero
    /\ Totals(2).cash_income = Float("2") /\ Totals(2).cash_expense = FloatZero

\* C3: on every transaction set the handlers of app.py reach, the dict
\* get_user_totals returns for a user has total_balance equal to
\* cash_balance + non_cash_balance and equal to total_income - total_expense.
C3_TotalBalance ==
    totals_call.pc = "return" =>
      LET totals == totals_result IN
        /\ totals.total_balance =
              FloatAdd(totals.cash_balance, totals.non_cash_balance)
        /\ totals.total_balance =
              FloatSub(totals.total_income, totals.total_expense)

\* The totals of an empty ledger.
ZeroTotals ==
    [total_transactions |-> 0, cash_count |-> 0, non_cash_count |-> 0,
     cash_income |-> FloatZero, cash_expense |-> FloatZero,
     cash_balance |-> FloatZero,
     non_cash_income |-> FloatZero, non_cash_expense |-> FloatZero,
     non_cash_balance |-> FloatZero,
     total_income |-> FloatZero, total_expense |-> FloatZero,
     total_balance |-> FloatZero]

\* C8: whenever a user has no stored transaction (initially, after
\* clear_all_transactions, after deleting every row), get_user_totals
\* returns zero in every field.
C8_EmptyTotals ==
    \A u \in Users :
        (\A r \in transactions : r.user_id # u) => Totals(u) = ZeroTotals

\* C8 witness: a user has just cleared a ledger that held rows (its ids are
\* used up) while the other user still holds a row.
C8_Witness ==
    /\ variant = "app"
    /\ request.route = "clear_all_transactions"
    /\ response = "success"
    /\ seq > Cardinality(transactions)
    /\ \E u \in Users : \A r \in transactions : r.user_id # u
    /\ transactions # {}

\* C4: for every transaction set the handlers of app.py reach and every
\* user, total_transactions equals cash_count + non_cash_count.
C4_CountsAddUp ==
    \A u \in Users :
        Totals(u).total_transactions = Totals(u).cash_count + Totals(u).non_cash_count

(***************************************************************************)
(* Claims about validation                                                 *)
(***************************************************************************)
\* The form carries a numeric amount that is not positive.
NonPositiveAmount(form) ==
    /\ form.amount \in DOMAIN FloatTable
    /\ ~ FloatLess(FloatZero, FloatTable[form.amount])

\* C5: a request adding a transaction with amount <= 0 is rejected: it
\* inserts no row, and every user's totals after it equal the totals before.
C5_NonPositiveRejected ==
    [][ /\ request'.route = "add_transaction" =>
              \A u \in Users : \A f \in AddForms(u) :
                  (NonPositiveAmount(f) /\ add_transaction(u, f))
                     => /\ transactions' = transactions
                        /\ \A v \in Users : get_user_totals(transactions', v)
                                              = get_user_totals(transactions, v)
        /\ cashflow' # cashflow =>
              \A s \in DOMAIN pending :
                  ~ (/\ s.route = "index_post" /\ s.pc = "dated"
                     /\ ~ FloatLess(FloatZero, InsertValue(s.writes, "amount"))
                     /\ index_post_commit(s))
      ]_vars

\* C6: every stored transaction has its category in {cash, non_cash} and its
\* type in {income, expenditure}.
C6_EnumeratedValues ==
    /\ \A r \in transactions :
          /\ r.category \in {"cash", "non_cash"}
          /\ r.transaction_type \in {"income", "expenditure"}
    /\ \A r \in cashflow :
          /\ r.category \in {"cash", "non_cash"}
          /\ r.transaction \in {"income", "expenditure"}

(***************************************************************************)
(* Claims about the running balances (src/routes/cashflow.py)              *)
(***************************************************************************)
\* Every ascending-by-date arrangement of a collection: records of equal
\* date in any order.
RECURSIVE DateOrders(_)
DateOrders(recs) ==
    IF recs = {} THEN {<<>>}
    ELSE LET firsts == {r \in recs : \A q \in recs : r.date <= q.date}
         IN UNION {{<<r>> \o s : s \in DateOrders(recs \ {r})} : r \in firsts}

\* What a record contributes to its category's balance: +amount for an
\* income, -amount for an expenditure.
SignedAmount(r) ==
    IF r.transaction = "income" THEN r.amount
    ELSE IF r.transaction = "expenditure" THEN FloatNeg(r.amount)
    ELSE FloatZero

\* The signed sum of the records of one category among the first i of s.
RECURSIVE CumulativeSum(_, _, _)
CumulativeSum(s, i, category) ==
    IF i = 0 THEN FloatZero
    ELSE FloatAdd(CumulativeSum(s, i - 1, category),
                  IF s[i].category = category THEN SignedAmount(s[i])
                  ELSE FloatZero)

\* C2: after every completed add, edit and delete of the ORM variant, each
\* stored record's saldo_cash and saldo_non_cash are the signed cumulative
\* sums of the cash and of the non_cash records up to and including that
\* record, in an ascending date order of the table.  (No request stands
\* between its commit and its recalc_saldo(): all are completed.)
C2_RunningBalances ==
    pending = NoneInFlight =>
      \E s \in DateOrders(cashflow) :
        \A i \in 1 .. Len(s) :
            /\ s[i].saldo_cash = CumulativeSum(s, i, "cash")
            /\ s[i].saldo_non_cash = CumulativeSum(s, i, "non_cash")

\* The ORM table's collection as rows of the SQL table of one user.
AsTransactions(recs, user) ==
    {[id |-> r.id, user_id |-> user, description |-> r.description,
      category |-> r.category, transaction_type |-> r.transaction,
      amount |-> r.amount, transaction_date |-> r.date] : r \in recs}

\* C7: on one and the same collection, recalc_saldo leaves one balance pair
\* on each transaction, and the pair on the chronologically last one is the
\* cash_balance and non_cash_balance get_user_totals derives.
C7_LastBalanceIsTotal ==
    (pending = NoneInFlight /\ cashflow # {}) =>
        /\ Cardinality({r.id : r \in cashflow}) = Cardinality(cashflow)
        /\ \E s \in DateOrders(cashflow) :
              LET last == s[Len(s)]
                  totals == get_user_totals(AsTransactions(cashflow, 1), 1)
              IN /\ last.saldo_cash = totals.cash_balance
                 /\ last.saldo_non_cash = totals.non_cash_balance

(***************************************************************************)
(* Claims about edit and delete                                            *)
(***************************************************************************)
\* The columns of a Cashflow row a form or a default sets, without the two
\* derived saldo columns.
Core(r) ==
    [id |-> r.id, date |-> r.date, description |-> r.description,
     category |-> r.category, transaction |-> r.transaction, amount |-> r.amount]

\* An update of app.py answered with success keeps every row's id, owner
\* and timestamp and leaves every row but the one named as it was.
AppUpdateFrame(id) ==
    /\ {r \in transactions' : r.id # id} = {r \in transactions : r.id # id}
    /\ {<<r.id, r.user_id, r.transaction_date>> : r \in transactions'}
         = {<<r.id, r.user_id, r.transaction_date>> : r \in transactions}
    /\ Cardinality(transactions') = Cardinality(transactions)

\* The UPDATE of an update of the ORM variant leaves every row but the one
\* named as it was, and every row's id, timestamp and balances.
OrmUpdateFrameStrict(id) ==
    /\ {r \in cashflow' : r.id # id} = {r \in cashflow : r.id # id}
    /\ {<<r.id, r.date, r.saldo_cash, r.saldo_non_cash>> : r \in cashflow'}
         = {<<r.id, r.date, r.saldo_cash, r.saldo_non_cash>> : r \in cashflow}
    /\ Cardinality(cashflow') = Cardinality(cashflow)

\* The commit of the recalc_saldo() that ends an update or a delete of the
\* ORM variant leaves every row as it was, saldo columns included.
OrmRecalcFrameStrict == cashflow' = cashflow

\* The commit of the recalc_saldo() that ends an update or a delete of the
\* ORM variant leaves every row as it was but for its saldo columns.
OrmRecalcFrame ==
    /\ {Core(r) : r \in cashflow'} = {Core(r) : r \in cashflow}
    /\ Cardinality(cashflow') = Cardinality(cashflow)

\* The step answers a request in flight.
Answered == InFlightCount(pending') < InFlightCount(pending)

\* C9 as stated: an update changes only description, category,
\* transaction_type and amount of the row named; its id and timestamp stay,
\* and no other row is changed.
C9_UpdateFrameStrict ==
    [][ /\ (request'.route = "edit_transaction" /\ response' = "success") =>
              AppUpdateFrame(request'.id)
        /\ (variant = "orm" /\ cashflow' # cashflow) =>
              \A s \in DOMAIN pending :
                  s.route = "edit" =>
                      /\ edit_commit(s) => OrmUpdateFrameStrict(s.id)
                      /\ recalc_saldo_commit(s) => OrmRecalcFrameStrict
      ]_vars

\* C9 as amended: every commit of an update keeps every row's id and
\* timestamp (and owner) and adds or removes no row.  The UPDATE of app.py
\* and the ORM edit's own commit change nothing but description, category,
\* transaction_type and amount of the row that carries the id named; the
\* commit of the recalc_saldo() the ORM edit then runs changes nothing but
\* saldo_cash and saldo_non_cash columns.  The ORM edit's read of its row
\* changes nothing, and a commit that raises changes nothing: an update of
\* app.py answered with an error changes no row, and neither does the step
\* at which an ORM edit is answered with an error.  (Every conjunct about the
\* ORM variant holds of a step that leaves the table as it is.)
C9_UpdateFrame ==
    [][ /\ (request'.route = "edit_transaction" /\ response' = "success") =>
              AppUpdateFrame(request'.id)
        /\ (request'.route = "edit_transaction" /\ response' = "error") =>
              transactions' = transactions
        /\ (variant = "orm" /\ cashflow' # cashflow) =>
              /\ \A s \in DOMAIN pending :
                    s.route = "edit" =>
                      /\ edit_commit(s) =>
                            /\ OrmUpdateFrameStrict(s.id)
                            /\ Answered => cashflow' = cashflow
                      /\ recalc_saldo_commit(s) =>
                            /\ OrmRecalcFrame
                            /\ response' = "error" => cashflow' = cashflow
              /\ \A i \in Ids, f \in EditForms : edit(i, f) => cashflow' = cashflow
      ]_vars

\* C9 witness: an update of the ORM variant has just committed its UPDATE on
\* a table of two cash rows and has yet to call recalc_saldo(): the row
\* named carries the submitted columns, and both rows still carry the
\* balances of before, which count what the row was.
C9_Witness ==
    /\ variant = "orm"
    /\ \E s \in DOMAIN pending : s.route = "edit" /\ s.id = 1 /\ s.pc = "committed"
    /\ \E r, q \in cashflow :
          /\ r.id = 1 /\ r.date < q.date
          /\ r.description = "kopi" /\ r.transaction = "expenditure"
          /\ r.category = "cash" /\ q.category = "cash"
          /\ FloatLess(FloatZero, r.saldo_cash)
          /\ q.saldo_cash = FloatAdd(r.saldo_cash, SaldoDelta(q))

\* C10: an edit or delete naming an id that is no row (of the current user)
\* is answered with an error, never with success, and changes no row.
C10_UnknownIdSignalled ==
    [][ /\ \A u \in Users, i \in Ids :
              (~ \E r \in transactions : r.id = i /\ r.user_id = u)
                 => /\ (\E f \in EditForms : edit_transaction(u, i, f))
                          => (response' \in {"not_found", "error"}
                                /\ transactions' = transactions)
                    /\ delete_transaction(u, i)
                          => (response' \in {"not_found", "error"}
                                /\ transactions' = transactions)
        /\ \A i \in Ids :
              (~ \E r \in cashflow : r.id = i)
                 => /\ (\E f \in EditForms : edit(i, f))
                          => (response' \in {"not_found", "error"}
                                /\ cashflow' = cashflow)
                    /\ delete(i)
                          => (response' \in {"not_found", "error"}
                                /\ cashflow' = cashflow)
      ]_vars

(***************************************************************************)
(* Claims about the listing (src/app.py)                                   *)
(***************************************************************************)
\* sub occurs in text as a run of consecutive characters, letters compared
\* without regard to case.
ContainsSubstring(text, sub) ==
    \E k \in 0 .. Len(text) - Len(sub) :
        \A j \in 1 .. Len(sub) : Lower(text[k + j]) = Lower(sub[j])

\* The rows of a user that satisfy every supplied predicate.
Matching(user, category, trans_type, search) ==
    {r \in transactions :
        /\ r.user_id = user
        /\ category # "all" => r.category = category
        /\ trans_type # "all" => r.transaction_type = trans_type
        /\ search # "" => ContainsSubstring(Chars[r.description], Chars[search])}

\* C11: the listing returns exactly the current user's transactions whose
\* category equals the category filter, whose type equals the type filter
\* and whose description contains the search string, each once; a filter
\* given as "all" and an empty search exclude nothing.
C11_ListingFilters ==
    \A u \in Users, c \in FilterCategories, t \in FilterTypes, s \in Searches :
        LET records == transactions_records(transactions, u, c, t, s)
        IN /\ {records[i].id : i \in 1 .. Len(records)}
                = {r.id : r \in Matching(u, c, t, s)}
           /\ Len(records) = Cardinality(Matching(u, c, t, s))

(***************************************************************************)
(* Claims about delete and clear all                                       *)
(***************************************************************************)
\* A delete of app.py by a user: the row of that id and owner is gone, and
\* the table is otherwise as it was.
AppDeleteFrame(user, id) ==
    /\ transactions' \subseteq transactions
    /\ \A r \in transactions :
          r \notin transactions' <=> (r.id = id /\ r.user_id = user)
    /\ Cardinality(transactions \ transactions') <= 1

\* A delete of app.py by a user removes one row, the row of that id and
\* owner, and the table is otherwise as it was.
AppDeleteFrameStrict(user, id) ==
    /\ AppDeleteFrame(user, id)
    /\ Cardinality(transactions \ transactions') = 1

\* The DELETE of a delete of the ORM variant leaves every row of another id
\* as it was, saldo columns included, and no row of the id named.
OrmDeleteFrame(id) == cashflow' = {r \in cashflow : r.id # id}

\* The DELETE of a delete of the ORM variant removes one row, the row of the
\* id named, and leaves every other row as it was, saldo columns included.
OrmDeleteFrameStrict(id) ==
    /\ OrmDeleteFrame(id)
    /\ Cardinality(cashflow \ cashflow') = 1

\* A clear-all by a user: none of the user's rows is left, and the user's
\* totals count zero transactions.
ClearAllEffect(user) ==
    /\ ~ \E r \in transactions' : r.user_id = user
    /\ get_user_totals(transactions', user).total_transactions = 0

\* C12 as stated: a delete answered with success removes exactly the one
\* row of the id named and leaves every other row unchanged; a clear all
\* answered with success removes every row of the current user, who then
\* has zero transactions.
C12_DeleteFrameStrict ==
    [][ /\ (request'.route = "delete_transaction" /\ response' = "success") =>
              \A u \in Users, i \in Ids :
                  delete_transaction(u, i) => AppDeleteFrameStrict(u, i)
        /\ (variant = "orm" /\ pending' # pending) =>
              \A s \in DOMAIN pending :
                  s.route = "delete" =>
                      /\ delete_commit(s) => OrmDeleteFrameStrict(s.id)
                      /\ recalc_saldo_commit(s) => OrmRecalcFrameStrict
        /\ (request'.route = "clear_all_transactions" /\ response' = "success") =>
              \A u \in Users : clear_all_transactions(u) => ClearAllEffect(u)
      ]_vars

\* C12 as amended: the DELETE of a delete removes the row that carries the
\* id named (in app.py: and belongs to the current user) if the table holds
\* one, and leaves every other row as it was; in the ORM variant the commit
\* of the recalc_saldo() the delete then runs changes nothing but saldo_cash
\* and saldo_non_cash columns of the remaining rows, and the delete's read of
\* its row changes nothing.  A clear all answered with success removes every
\* row of the current user, who then has zero transactions.  A commit that
\* raises removes nothing: a delete or clear all of app.py answered with an
\* error changes no row, and neither does the step at which an ORM delete is
\* answered with an error.
C12_DeleteFrame ==
    [][ /\ (request'.route = "delete_transaction" /\ response' = "success") =>
              \A u \in Users, i \in Ids :
                  delete_transaction(u, i) => AppDeleteFrame(u, i)
        /\ (variant = "orm" /\ pending' # pending) =>
              \A s \in DOMAIN pending :
                    s.route = "delete" =>
                      /\ delete_commit(s) => OrmDeleteFrame(s.id)
                      /\ recalc_saldo_commit(s) =>
                            /\ OrmRecalcFrame
                            /\ response' = "error" => cashflow' = cashflow
        /\ (variant = "orm" /\ cashflow' # cashflow) =>
              \A i \in Ids : ~ delete(i)
        /\ (request'.route = "clear_all_transactions" /\ response' = "success") =>
              \A u \in Users : clear_all_transactions(u) => ClearAllEffect(u)
        /\ (request'.route \in {"delete_transaction", "clear_all_transactions"}
              /\ response' = "error") =>
              transactions' = transactions
      ]_vars

\* C12 witness: the ORM variant has just committed the DELETE of the row of
\* id 1 from under a later row and has yet to call recalc_saldo(): the
\* later row is as it was, its balance still counting the row removed.
C12_Witness ==
    /\ variant = "orm"
    /\ \E s \in DOMAIN pending : s.route = "delete" /\ s.id = 1 /\ s.pc = "committed"
    /\ \E r \in cashflow :
          /\ r.id = 2
          /\ r.amount # FloatZero
          /\ r.category = "cash" /\ r.saldo_cash # SaldoDelta(r)
    /\ ~ \E r \in cashflow : r.id = 1

(***************************************************************************)
(* Claims about get_user_totals beside other requests                      *)
(***************************************************************************)
\* C13: the dict one get_user_totals call returns is the dict of one
\* committed table: of one of the tables its queries read, also when other
\* requests commit between its queries.
C13_ConsistentSnapshot ==
    totals_call.pc = "return" =>
        \E tbl \in totals_call.reads :
            totals_result = get_user_totals(tbl, totals_call.user_id)

(***************************************************************************)
(* Claims about the order of the running-balance pass                      *)
(***************************************************************************)
\* q is processed no later than r: earlier timestamp, or the same timestamp
\* and no larger id.
NoLaterThan(q, r) == q.date < r.date \/ (q.date = r.date /\ q.id <= r.id)

\* The sum of what the records of a set add to their accumulators.
\* (taken latest first, so that the sum is built up in processing order)
RECURSIVE SumOfDeltas(_)
SumOfDeltas(recs) ==
    IF recs = {} THEN FloatZero
    ELSE LET r == CHOOSE x \in recs : \A y \in recs : NoLaterThan(y, x)
         IN FloatAdd(SumOfDeltas(recs \ {r}), SaldoDelta(r))

\* C14: the running-balance pass takes the records in ascending timestamp
\* order, records of equal timestamp in id order, so that the balances
\* recalc_saldo wrote are a function of the stored collection: once every
\* request is through its recalc_saldo(), every stored record's saldo_cash
\* (saldo_non_cash) is the sum over the records of the cash accumulator (of
\* the other accumulator) that are no later than it in that order.
C14_BalancesByDateThenId ==
    (variant = "orm" /\ pending = NoneInFlight) =>
      \A r \in cashflow :
        /\ r.saldo_cash =
              SumOfDeltas({q \in cashflow : q.category = "cash" /\ NoLaterThan(q, r)})
        /\ r.saldo_non_cash =
              SumOfDeltas({q \in cashflow : q.category # "cash" /\ NoLaterThan(q, r)})

(***************************************************************************)
(* Claims about the index view (src/routes/cashflow.py)                    *)
(***************************************************************************)
\* C15: after any sequence of add, edit and delete requests the cash_total
\* and non_cash_total the index view passes to its template are the current
\* balances of the whole ledger, the sums over all records of each
\* accumulator (the running balances after the latest record), and 0 when
\* there is no record.
C15_IndexTotalsCurrent ==
    (variant = "orm" /\ pending = NoneInFlight) =>
        /\ index_get(cashflow).cash_total =
              SumOfDeltas({q \in cashflow : q.category = "cash"})
        /\ index_get(cashflow).non_cash_total =
              SumOfDeltas({q \in cashflow : q.category # "cash"})

(***************************************************************************)
(* Claims about user isolation (src/app.py)                                *)
(***************************************************************************)
\* The step is an add, edit, delete or clear-all request of the user, with
\* any form and any id.
IssuedBy(user) ==
    \/ \E f \in AddForms(user) : add_transaction(user, f)
    \/ \E i \in Ids, f \in EditForms : edit_transaction(user, i, f)
    \/ \E i \in Ids : delete_transaction(user, i)
    \/ clear_all_transactions(user)

\* The step changes a row the user owns, or what get_user_totals returns
\* for the user.
ChangedFor(user) ==
    \/ {r \in transactions' : r.user_id = user} # {r \in transactions : r.user_id = user}
    \/ get_user_totals(transactions', user) # get_user_totals(transactions, user)

\* C16: for distinct users A and B, no add, edit, delete or clear-all
\* request issued by A, whatever id it names, changes a row owned by B or
\* get_user_totals(B).  (A step that leaves the table as it is changes
\* neither.)
C16_UserIsolation ==
    [][ transactions' # transactions =>
            \A a \in Users, b \in Users :
                a # b => ~ (ChangedFor(b) /\ IssuedBy(a)) ]_vars

\* C16 witness: an edit has just been answered with success that named the
\* id of a row of user 2 and did not come from user 2 (whose edits set the
\* description "kopi"), while user 1 holds a row too; user 2's row is as it
\* was added.
C16_Witness ==
    /\ request.route = "edit_transaction"
    /\ response = "success"
    /\ \E r \in transactions :
          /\ r.id = request.id
          /\ r.user_id = 2
          /\ r.description = "gaji"
    /\ \E r \in transactions : r.user_id = 1

(***************************************************************************)
(* Claims about the reports view (src/app.py)                              *)
(***************************************************************************)
\* The stats of a user's reports view on the current table.
Stats(user) == reports_stats(get_user_totals(transactions, user))

\* C17: in every reachable state no ratio of the reports view divides by
\* zero; with no transactions all four ratios are 0; income_ratio and
\* expense_ratio are the computed percentages when total_income +
\* total_expense > 0 and are 0 otherwise.
C17_NoDivisionByZero ==
    \A u \in Users :
        LET totals == get_user_totals(transactions, u)
            sum == FloatAdd(totals.total_income, totals.total_expense)
            stats == reports_stats(totals)
        IN /\ ~ stats.cash_ratio.raises
           /\ ~ stats.non_cash_ratio.raises
           /\ ~ stats.income_ratio.raises
           /\ ~ stats.expense_ratio.raises
           /\ totals.total_transactions = 0 =>
                 /\ stats.cash_ratio = ZeroRatio
                 /\ stats.non_cash_ratio = ZeroRatio
                 /\ stats.income_ratio = ZeroRatio
                 /\ stats.expense_ratio = ZeroRatio
           /\ (totals.total_transactions > 0 /\ FloatLess(FloatZero, sum)) =>
                 /\ stats.income_ratio.num = totals.total_income
                 /\ stats.income_ratio.den = sum
                 /\ stats.income_ratio.times = 100
                 /\ stats.expense_ratio.num = totals.total_expense
                 /\ stats.expense_ratio.den = sum
                 /\ stats.expense_ratio.times = 100
           /\ ~ FloatLess(FloatZero, sum) =>
                 /\ stats.income_ratio = ZeroRatio
                 /\ stats.expense_ratio = ZeroRatio

\* C17 witness: a user holds transactions whose total_income +
\* total_expense is 0, the case the guard of the two ratios is there for.
C17_Witness ==
    \E u \in Users :
        /\ get_user_totals(transactions, u).total_transactions > 0
        /\ FloatAdd(get_user_totals(transactions, u).total_income,
                    get_user_totals(transactions, u).total_expense) = FloatZero
        /\ Stats(u).income_ratio = ZeroRatio

================================================================================
